---- MODULE Spec2Model ----
(***************************************************************************)
(* Session state machine of the "guess the player" backend:                *)
(*   - InMemoryStorage (backend/app/services/in_memory_storage.py)         *)
(*   - SessionService  (backend/app/services/session_service.py)           *)
(*   - GameService     (backend/app/services/game_service.py)              *)
(*   - the session router and the periodic cleanup task                    *)
(*   - the Sequence Cleaner (scraper/data_preparation/create_sequence.py)  *)
(*                                                                         *)
(* Request handlers are plain `def` endpoints, so they run on worker       *)
(* threads; the cleanup task runs on the event loop.  Every call of a      *)
(* store method is one atomic step; the steps of different requests and    *)
(* of the sweep interleave freely.  A request's body (the guess, the       *)
(* difficulty and top_n overrides) is read by nothing before the step      *)
(* that uses it, so it is drawn in that step.                              *)
(*                                                                         *)
(* Optional values (Python None) are sequences: << >> is None, <<v>> is v. *)
(* Strings that the code inspects character by character (names, guesses)  *)
(* are sequences of one-character strings.                                 *)
(***************************************************************************)
EXTENDS Integers, Sequences, FiniteSets, TLC

VARIABLES
    storage,    \* InMemoryStorage._storage : key -> value
    expiry,     \* InMemoryStorage._expiry  : key -> deadline
    now,        \* time.time() / datetime.now()
    thread,     \* per worker thread: the request it serves and its locals
    lastResp,   \* the response the step just taken returned to its client, if it returned
                \* one; with the response of a start or next request, the difficulty and
                \* top_n of its body.  Where one function is called on its own
                \* (GameService, the Sequence Cleaner): the call, its arguments and what
                \* it returned or raised
    sweep,      \* cleanup_sessions_task: the keys cleanup_expired still has to delete
    used,       \* session ids uuid4 has handed out
    client,     \* history: per session, what its client has seen: the question it last
                \* received, the difficulty / top_n it last supplied in a request that
                \* succeeded, when the session was created, how many guesses were
                \* answered with success and how many of them as correct, whether an
                \* end was answered with success
    deadline,   \* history: per stored key, set time + ttl of the last set
    requests,   \* number of requests received so far
    lastCall    \* the last store call made by the sweep, or directly on the store
                \* (store-level specification), and what it returned

vars == <<storage, expiry, now, thread, lastResp, sweep, used, client, deadline, requests, lastCall>>

----------------------------------------------------------------------------
(* Bounds of the model *)

MaxTime == 3
SessionTTL == 1
MaxRequests == 3

Threads == {"t1", "t2"}
SessionIds == {"s1", "s2"}
MalformedId == "not-a-uuid"

None == << >>
Some(v) == <<v>>
EmptyMap == [x \in {} |-> TRUE]

----------------------------------------------------------------------------
(* InMemoryStorage *)

Put(f, k, v) == [x \in DOMAIN f \cup {k} |-> IF x = k THEN v ELSE f[x]]
Pop(f, k) == [x \in DOMAIN f \ {k} |-> f[x]]
ExpiryGet(ex, k) == IF k \in DOMAIN ex THEN ex[k] ELSE 0
StoreResult(st, ex, r) == [storage |-> st, expiry |-> ex, ret |-> r]

set(st, ex, t, key, value, ttl) ==
    StoreResult(Put(st, key, value), Put(ex, key, t + ttl), TRUE)

\* variant: the value goes and the deadline stays
delete_value_only(st, ex, key) ==
    StoreResult(Pop(st, key), ex, key \in DOMAIN st)

delete(st, ex, key) ==
    StoreResult(Pop(st, key), Pop(ex, key), key \in DOMAIN st)

\* variant: no entry ever expires
IsExpired_never(ex, t, key) == FALSE

IsExpired(ex, t, key) == t > ExpiryGet(ex, key)

\* variant of get: an expired entry reads as absent but stays in the store
get_without_eviction(st, ex, t, key) ==
    IF key \notin DOMAIN st THEN StoreResult(st, ex, None)
    ELSE IF IsExpired(ex, t, key)
         THEN StoreResult(st, ex, None)
         ELSE StoreResult(st, ex, Some(st[key]))

get(st, ex, t, key) ==
    IF key \notin DOMAIN st THEN StoreResult(st, ex, None)
    ELSE IF IsExpired(ex, t, key)
         THEN [delete(st, ex, key) EXCEPT !.ret = None]
         ELSE StoreResult(st, ex, Some(st[key]))

exists(st, ex, t, key) ==
    IF key \notin DOMAIN st THEN StoreResult(st, ex, FALSE)
    ELSE IF IsExpired(ex, t, key)
         THEN [delete(st, ex, key) EXCEPT !.ret = FALSE]
         ELSE StoreResult(st, ex, TRUE)

\* variants of update: one that restarts the key's clock, one that writes a key that is
\* gone, one that stores the value with a new deadline whether the key is there or
\* not, one that counts an attempt on top of the stored record
update_refreshing(st, ex, t, key, value) ==
    LET e == exists(st, ex, t, key)
    IN  IF ~e.ret THEN e
        ELSE StoreResult(Put(e.storage, key, value), Put(e.expiry, key, t + 1), TRUE)

update_upserting(st, ex, t, key, value) ==
    LET e == exists(st, ex, t, key)
    IN  StoreResult(Put(e.storage, key, value), e.expiry, TRUE)

update_as_set(st, ex, t, key, value) == set(st, ex, t, key, value, 1)

update_merging(st, ex, t, key, value) ==
    LET e == exists(st, ex, t, key)
    IN  IF ~e.ret THEN e
        ELSE StoreResult(Put(e.storage, key,
                             [value EXCEPT !.total_attempts = e.storage[key].total_attempts + 1]),
                         e.expiry, TRUE)

update(st, ex, t, key, value) ==
    LET e == exists(st, ex, t, key)
    IN  IF ~e.ret THEN e
        ELSE StoreResult(Put(e.storage, key, value), e.expiry, TRUE)

\* variant: an entry is listed at its deadline, one tick early
expired_keys_early(ex, current_time) == {k \in DOMAIN ex : current_time >= ex[k]}

\* variant: the listing finds no entry
expired_keys_none(ex, current_time) == {}

expired_keys(ex, current_time) == {k \in DOMAIN ex : current_time > ex[k]}

RECURSIVE DeleteAll(_, _, _)
DeleteAll(st, ex, keys) ==
    IF keys = {} THEN StoreResult(st, ex, 0)
    ELSE LET k == CHOOSE x \in keys : TRUE
             d == delete(st, ex, k)
         IN  DeleteAll(d.storage, d.expiry, keys \ {k})

cleanup_expired(st, ex, t) ==
    LET ks == expired_keys(ex, t)
    IN  [DeleteAll(st, ex, ks) EXCEPT !.ret = Cardinality(ks)]

get_all_keys(st, ex, t) ==
    LET c == cleanup_expired(st, ex, t)
    IN  [c EXCEPT !.ret = DOMAIN c.storage]

----------------------------------------------------------------------------
(* Question Store: the rows of sequence_analysis the services query.       *)
(* p1 and p2 share one sequence_string; no row has difficulty "moderate".  *)

PlayerIds == {"p1", "p2", "p3"}

sequence_analysis ==
    [p1 |-> [player_name |-> <<"A", "b", "c", "d">>, difficulty |-> "short",
             market_value_numeric |-> 30, sequence_string |-> "X"],
     p2 |-> [player_name |-> <<"B", "x">>, difficulty |-> "short",
             market_value_numeric |-> 10, sequence_string |-> "X"],
     p3 |-> [player_name |-> <<"C", "y">>, difficulty |-> "long",
             market_value_numeric |-> 20, sequence_string |-> "Y"]]

Difficulties == {"short", "moderate", "long"}
TopNMax == 5000
fuzzy_match_threshold == 85

Max(a, b) == IF a >= b THEN a ELSE b
Min(a, b) == IF a <= b THEN a ELSE b

Err(code) == [status |-> code]

\* ROW_NUMBER() OVER (ORDER BY market_value_numeric DESC)
rn(p) == 1 + Cardinality({q \in PlayerIds :
            sequence_analysis[q].market_value_numeric > sequence_analysis[p].market_value_numeric})

Question(p) == [player_id |-> p, difficulty |-> sequence_analysis[p].difficulty]

\* variant: top_n is capped at 5000 but not raised to 1
QuestionPool_uncapped_below(difficulty, top_n) ==
    {p \in PlayerIds : rn(p) <= Min(top_n, TopNMax)
                       /\ sequence_analysis[p].difficulty = difficulty}

QuestionPool(difficulty, top_n) ==
    {p \in PlayerIds : rn(p) <= Max(1, Min(top_n, TopNMax))
                       /\ sequence_analysis[p].difficulty = difficulty}

\* What the Question Store does during one call: it answers every query, or the
\* first query of the call raises, or the second one does
DbBehaviours == {"ok", "first_query_fails", "second_query_fails"}

\* The outcomes of one call under a given behaviour of the store: ORDER BY RANDOM()
\* LIMIT 1 picks any row of the pool.  The call makes one query.
get_random_question_on(db, difficulty, top_n) ==
    IF difficulty \notin Difficulties THEN {Err(400)}
    ELSE IF db = "first_query_fails" THEN {Err(500)}
    ELSE IF QuestionPool(difficulty, top_n) = {} THEN {Err(404)}
    ELSE {[status |-> 200, question |-> Question(p)] : p \in QuestionPool(difficulty, top_n)}

\* The set of outcomes of one call, whatever the store does
get_random_question(difficulty, top_n) ==
    UNION {get_random_question_on(db, difficulty, top_n) : db \in DbBehaviours}

----------------------------------------------------------------------------
(* Guess Evaluator *)

Whitespace == {" ", "\t"}
LowerOf == [A |-> "a", B |-> "b", C |-> "c", D |-> "d", E |-> "e", U |-> "u",
            X |-> "x", Y |-> "y"]
WordChars == DOMAIN LowerOf \cup {LowerOf[c] : c \in DOMAIN LowerOf} \cup {"_", "0", "1"}

RECURSIVE LStrip(_)
LStrip(s) == IF s = << >> THEN s
             ELSE IF Head(s) \in Whitespace THEN LStrip(Tail(s)) ELSE s

RECURSIVE RStrip(_)
RStrip(s) == IF s = << >> THEN s
             ELSE IF s[Len(s)] \in Whitespace THEN RStrip(SubSeq(s, 1, Len(s) - 1)) ELSE s

strip(s) == RStrip(LStrip(s))

\* re.sub(r'\s+', ' ', s)
RECURSIVE CollapseWhitespace(_)
CollapseWhitespace(s) ==
    IF s = << >> THEN s
    ELSE IF Head(s) \in Whitespace THEN <<" ">> \o CollapseWhitespace(LStrip(s))
         ELSE <<Head(s)>> \o CollapseWhitespace(Tail(s))

\* re.sub(r'[^\w\s\'-]', '', s)
KeptChar(c) == c \in WordChars \cup Whitespace \cup {"'", "-"}
RemoveSpecial(s) == SelectSeq(s, KeptChar)

sanitize_guess(guess) ==
    IF guess = << >> THEN << >>
    ELSE RemoveSpecial(CollapseWhitespace(strip(guess)))

lower(s) == [i \in 1..Len(s) |-> IF s[i] \in DOMAIN LowerOf THEN LowerOf[s[i]] ELSE s[i]]

RECURSIVE LCSLen(_, _)
LCSLen(a, b) ==
    IF a = << >> \/ b = << >> THEN 0
    ELSE IF Head(a) = Head(b) THEN 1 + LCSLen(Tail(a), Tail(b))
         ELSE Max(LCSLen(Tail(a), b), LCSLen(a, Tail(b)))

\* rapidfuzz.fuzz.ratio: 100 * (1 - indel_distance / (len1 + len2)), here rounded
\* down to a whole percent (the threshold it is compared with is a whole number).
ratio(a, b) ==
    IF Len(a) + Len(b) = 0 THEN 100
    ELSE (200 * LCSLen(a, b)) \div (Len(a) + Len(b))

fuzzy_match_player(query, candidates) ==
    IF candidates = {} THEN [match |-> query, score |-> 0]
    ELSE LET best == CHOOSE c \in candidates :
                        \A d \in candidates : ratio(query, c) >= ratio(query, d)
         IN  [match |-> best, score |-> ratio(query, best)]

SameSequence(player_id) ==
    {q \in PlayerIds :
        sequence_analysis[q].sequence_string = sequence_analysis[player_id].sequence_string}

GuessResponse(correct, answer, score, names) ==
    [status |-> 200, correct |-> correct, actual_answer |-> answer,
     similarity_score |-> score, all_possible_answers |-> names]

\* check_guess from "Check exact match first" on; threshold is
\* settings.fuzzy_match_threshold
Evaluate(threshold, player_id, guess, all_possible_names) ==
    LET correct_player_name == sequence_analysis[player_id].player_name
        guess_clean == lower(strip(guess))
        m == fuzzy_match_player(guess, all_possible_names)
    IN  IF \E name \in all_possible_names : guess_clean = lower(name)
        THEN GuessResponse(TRUE, correct_player_name, 100, all_possible_names)
        ELSE GuessResponse(m.score >= threshold, correct_player_name,
                           m.score, all_possible_names)

\* The outcome of one call under a given behaviour of the store and a given
\* settings.fuzzy_match_threshold: a failure of the first query is raised as 500; a
\* failure of the second one is caught and the target alone is taken as the
\* acceptable answer.
check_guess_on(db, threshold, player_id, raw_guess) ==
    LET guess == sanitize_guess(raw_guess)
    IN  IF guess = << >> THEN Err(400)
        ELSE IF db = "first_query_fails" THEN Err(500)
        ELSE IF player_id \notin PlayerIds THEN Err(404)
        ELSE Evaluate(threshold, player_id, guess,
                      IF db = "second_query_fails"
                      THEN {sequence_analysis[player_id].player_name}
                      ELSE {sequence_analysis[q].player_name : q \in SameSequence(player_id)})

\* The set of outcomes of one call, whatever the store does, under the default settings
check_guess(player_id, raw_guess) ==
    {check_guess_on(db, fuzzy_match_threshold, player_id, raw_guess) : db \in DbBehaviours}

----------------------------------------------------------------------------
(* Request inputs *)

GuessInputs ==
    {<<"a", "b", "c", "d">>,      \* the name of p1, in another case
     <<"A", "b", "c">>,           \* close to the name of p1
     <<"c", "y">>,                \* the name of p3
     <<"!", "\t">>,               \* nothing left after sanitizing
     << >>}                       \* rejected by SessionGuessRequest

DifficultyInputs == {"short", "long", "easy"}
TopNInputs == {1, 3, 10000}
NextTopNInputs == {2, 3}

\* SessionStartRequest: difficulty pattern, top_n gt=0 le=5000
SessionStartRequestOk(difficulty, top_n) ==
    difficulty \in {"short", "moderate", "long"} /\ top_n > 0 /\ top_n <= 5000

\* SessionGuessRequest: guess min_length=1
SessionGuessRequestOk(guess) == Len(guess) >= 1

\* variant: any string passes for a session id
validate_session_id_any(session_id) == TRUE

\* uuid.UUID(session_id) raises ValueError -> 400
validate_session_id(session_id) == session_id # MalformedId

Key(session_id) == <<"session", session_id>>

----------------------------------------------------------------------------
(* SessionService: the records it builds *)

NewSession(session_id, difficulty, top_n, question, t) ==
    [session_id |-> session_id, difficulty |-> difficulty, top_n |-> top_n,
     current_question_player_id |-> question.player_id,
     score |-> 0, total_attempts |-> 0, correct_guesses |-> 0,
     created_at |-> t, last_activity |-> t]

\* variant: the score moves whatever the evaluation says
GuessStats_always_scoring(session_data, correct, t) ==
    [session_data EXCEPT
        !.total_attempts = @ + 1,
        !.last_activity = t,
        !.score = @ + 1,
        !.correct_guesses = @ + 1]

\* variant: a correct guess moves the score and leaves correct_guesses as it was
GuessStats_score_only(session_data, correct, t) ==
    [session_data EXCEPT
        !.total_attempts = @ + 1,
        !.last_activity = t,
        !.score = IF correct THEN @ + 1 ELSE @]

\* submit_guess, "Update session stats"
GuessStats(session_data, correct, t) ==
    [session_data EXCEPT
        !.total_attempts = @ + 1,
        !.last_activity = t,
        !.score = IF correct THEN @ + 1 ELSE @,
        !.correct_guesses = IF correct THEN @ + 1 ELSE @]

\* variant: the stored value is used whatever the request supplies
Effective_stored(supplied, stored) == stored

\* get_next_question, "Use provided values OR fall back to stored session values"
Effective(supplied, stored) == IF supplied # None THEN supplied[1] ELSE stored

\* variants: one that keeps the previous question as the current one, one that
\* starts the counters again
NextQuestionData_keeping_question(session_data, question, effective_difficulty, effective_top_n, t) ==
    [session_data EXCEPT
        !.difficulty = effective_difficulty,
        !.top_n = effective_top_n,
        !.last_activity = t]

NextQuestionData_resetting(session_data, question, effective_difficulty, effective_top_n, t) ==
    [session_data EXCEPT
        !.current_question_player_id = question.player_id,
        !.difficulty = effective_difficulty,
        !.top_n = effective_top_n,
        !.score = 0,
        !.total_attempts = 0,
        !.last_activity = t]

\* get_next_question, "Update session with new question AND new difficulty/top_n"
NextQuestionData(session_data, question, effective_difficulty, effective_top_n, t) ==
    [session_data EXCEPT
        !.current_question_player_id = question.player_id,
        !.difficulty = effective_difficulty,
        !.top_n = effective_top_n,
        !.last_activity = t]

\* end_session, "Get final stats"
FinalStats(session_id, session_data, t) ==
    [status |-> 200, session_id |-> session_id,
     final_score |-> session_data.score,
     total_attempts |-> session_data.total_attempts,
     correct_guesses |-> session_data.correct_guesses,
     accuracy |-> IF session_data.total_attempts > 0
                  THEN (session_data.correct_guesses * 100) \div session_data.total_attempts
                  ELSE 0,
     difficulty |-> session_data.difficulty,
     duration |-> t - session_data.created_at]

\* get_session_status: the fields the router exposes
StatusBody(session_data) ==
    [status |-> 200, session_id |-> session_data.session_id,
     score |-> session_data.score, total_attempts |-> session_data.total_attempts,
     correct_guesses |-> session_data.correct_guesses,
     created_at |-> session_data.created_at, last_activity |-> session_data.last_activity]

----------------------------------------------------------------------------
(* Threads *)

IdleThread == [pc |-> "idle", sid |-> "none", session_data |-> None]

NoResp == [op |-> "none", sid |-> "none", request |-> None, body |-> Err(0)]

NoView == [player_id |-> "none", difficulty |-> "none", top_n |-> 0,
           created_at |-> 0, answered |-> 0, credited |-> 0, ended |-> FALSE]

Reply(t, op, sid, r) ==
    /\ thread' = [thread EXCEPT ![t] = IdleThread]
    /\ lastResp' = [op |-> op, sid |-> sid, request |-> None, body |-> r]

\* the history of deadlines follows the stored keys; a set fixes a new one
Track(newStorage, setKeys, ttl) ==
    [k \in DOMAIN newStorage |->
        IF k \in setKeys THEN now + ttl
        ELSE IF k \in DOMAIN deadline THEN deadline[k] ELSE 0]

StoreBecomes(r) ==
    /\ storage' = r.storage
    /\ expiry' = r.expiry
    /\ deadline' = Track(r.storage, {}, 0)

\* variant: a step that makes no store call empties the store
StoreSame_clearing == storage' = EmptyMap /\ expiry' = EmptyMap /\ deadline' = EmptyMap

StoreSame == UNCHANGED <<storage, expiry, deadline>>

\* a store call: its arguments, whether _storage held the key when it was made, and
\* what it returned, by type: ok for a bool, found for an Optional value, count for
\* a number of entries, keys for a list of keys
Call(op, key, value) ==
    [op |-> op, key |-> key, value |-> value, present |-> key \in DOMAIN storage,
     ok |-> FALSE, found |-> None, count |-> 0, keys |-> {}]

NoCall == [op |-> "none", key |-> Key("none"), value |-> None, present |-> FALSE,
           ok |-> FALSE, found |-> None, count |-> 0, keys |-> {}]

\* the worker threads in the order the pool hands them requests
Workers == <<"t1", "t2">>

\* a request arrives and goes to thread t: the workers are interchangeable, so it is
\* the first idle one that takes it
Receive(t) ==
    /\ requests < MaxRequests
    /\ requests' = requests + 1
    /\ thread[t].pc = "idle"
    /\ \A i, j \in DOMAIN Workers :
            (Workers[j] = t /\ i < j) => thread[Workers[i]].pc # "idle"


Init ==
    /\ storage = EmptyMap
    /\ expiry = EmptyMap
    /\ now = 1
    /\ thread = [t \in Threads |-> IdleThread]
    /\ lastResp = NoResp
    /\ sweep = [pc |-> "sleep", keys |-> {}]
    /\ used = {}
    /\ client = [s \in SessionIds |-> NoView]
    /\ deadline = EmptyMap
    /\ requests = 0
    /\ lastCall = NoCall

\* What a start request can come to, over every request body and every outcome of
\* get_random_question: the body, and with it a rejection by SessionStartRequest
\* (422), an error of create_session, or a question.
StartOutcomes ==
    UNION {LET request == [difficulty |-> Some(difficulty), top_n |-> Some(top_n)]
           IN  IF ~SessionStartRequestOk(difficulty, top_n)
               THEN {[status |-> 422, request |-> request, question |-> Question("p1")]}
               ELSE {[status |-> q.status, request |-> request,
                      question |-> IF q.status = 200 THEN q.question ELSE Question("p1")] :
                        q \in get_random_question(difficulty, top_n)} :
           difficulty \in DifficultyInputs, top_n \in TopNInputs}

\* POST /session/start : create_session.  uuid4 never repeats an id; the ids are
\* interchangeable, so the fresh one is picked in a fixed order.
start_session(t) ==
    /\ Receive(t)
    /\ UNCHANGED <<now, sweep, lastCall>>
    /\ SessionIds \ used # {}
    /\ thread' = [thread EXCEPT ![t] = IdleThread]
    /\ \E o \in StartOutcomes :
        IF o.status # 200
        THEN /\ lastResp' = [op |-> "start", sid |-> "none", request |-> Some(o.request),
                             body |-> Err(o.status)]
             /\ StoreSame
             /\ UNCHANGED <<used, client>>
        ELSE LET session_id == CHOOSE x \in SessionIds \ used :
                                   \A y \in SessionIds \ used : x = y \/ x = "s1"
                 difficulty == o.request.difficulty[1]
                 top_n == o.request.top_n[1]
                 session_data == NewSession(session_id, difficulty, top_n, o.question, now)
                 r == set(storage, expiry, now, Key(session_id), session_data, SessionTTL)
             IN  /\ storage' = r.storage
                 /\ expiry' = r.expiry
                 /\ deadline' = Track(r.storage, {Key(session_id)}, SessionTTL)
                 /\ used' = used \cup {session_id}
                 /\ client' = [client EXCEPT ![session_id] =
                                  [player_id |-> o.question.player_id,
                                   difficulty |-> difficulty, top_n |-> top_n,
                                   created_at |-> now, answered |-> 0, credited |-> 0,
                                   ended |-> FALSE]]
                 /\ lastResp' = [op |-> "start", sid |-> session_id,
                                 request |-> Some(o.request),
                                 body |-> [status |-> 200, session_id |-> session_id,
                                           question |-> o.question, score |-> 0,
                                           total_attempts |-> 0]]

\* a guess, next, end or status request whose session id is not a UUID:
\* validate_session_id raises 400 before the handler calls the service; were the id
\* let through, get_session would look its key up, which no session has, and raise 404
invalid_session_id(t) ==
    /\ Receive(t)
    /\ \E op \in {"guess", "next", "end", "status"} :
        IF validate_session_id(MalformedId)
        THEN /\ StoreBecomes(get(storage, expiry, now, Key(MalformedId)))
             /\ Reply(t, op, MalformedId, Err(404))
        ELSE /\ StoreSame
             /\ Reply(t, op, MalformedId, Err(400))
    /\ UNCHANGED <<now, sweep, used, client, lastCall>>

\* POST /session/{id}/guess with an empty guess: SessionGuessRequest rejects the body
\* before the handler runs, whatever the session id
submit_guess_rejected(t) ==
    /\ Receive(t)
    /\ \E guess \in GuessInputs : ~SessionGuessRequestOk(guess)
    /\ \E sid \in SessionIds \cup {MalformedId} : Reply(t, "guess", sid, Err(422))
    /\ StoreSame
    /\ UNCHANGED <<now, sweep, used, client, lastCall>>

\* SessionService.get_session, the first store call of submit_guess, get_next_question
\* and end_session alike: which of the three handlers runs shows in the step after it
get_session(t) ==
    /\ Receive(t)
    /\ UNCHANGED <<now, sweep, used, client, lastCall>>
    /\ \E sid \in SessionIds :
        LET r == get(storage, expiry, now, Key(sid))
        IN  /\ StoreBecomes(r)
            /\ IF r.ret = None
               THEN \E op \in {"guess", "next", "end"} : Reply(t, op, sid, Err(404))
               ELSE /\ thread' = [thread EXCEPT ![t] =
                            [pc |-> "read", sid |-> sid, session_data |-> r.ret]]
                    /\ lastResp' = NoResp

\* What check_guess can come to for the target, over every accepted guess and every
\* outcome of its queries; of a result, the fields submit_guess reads or the claims
\* about sessions name
GuessOutcomesOf(player_id) ==
    UNION {{IF g.status # 200 THEN g
            ELSE [status |-> 200, correct |-> g.correct, actual_answer |-> g.actual_answer] :
               g \in check_guess(player_id, guess)} :
           guess \in {x \in GuessInputs : SessionGuessRequestOk(x)}}

\* the same, computed once per target
GuessOutcomeTable == [p \in PlayerIds |-> GuessOutcomesOf(p)]
GuessOutcomes(player_id) == GuessOutcomeTable[player_id]

\* POST /session/{id}/guess: submit_guess from check_guess to the write-back and the response
submit_guess(t) ==
    /\ thread[t].pc = "read"
    /\ UNCHANGED requests
    /\ UNCHANGED <<now, sweep, used, lastCall>>
    /\ LET session_data == thread[t].session_data[1]
           sid == thread[t].sid
           current_player_id == session_data.current_question_player_id
       IN  IF current_player_id = ""
           THEN Reply(t, "guess", sid, Err(400)) /\ StoreSame /\ UNCHANGED client
           ELSE \E g \in GuessOutcomes(current_player_id) :
                IF g.status # 200
                THEN Reply(t, "guess", sid, Err(g.status)) /\ StoreSame /\ UNCHANGED client
                ELSE LET new == GuessStats(session_data, g.correct, now)
                     IN  /\ StoreBecomes(update(storage, expiry, now, Key(sid), new))
                         /\ client' = [client EXCEPT
                                ![sid].answered = @ + 1,
                                ![sid].credited = IF g.correct THEN @ + 1 ELSE @]
                         /\ Reply(t, "guess", sid,
                                  [status |-> 200, correct |-> g.correct,
                                   actual_answer |-> g.actual_answer,
                                   session_score |-> new.score,
                                   total_attempts |-> new.total_attempts])

\* The bodies a next request can carry: difficulty and top_n, each omitted or supplied
NextRequests ==
    {[difficulty |-> d, top_n |-> n] :
        d \in {None} \cup {Some(x) : x \in DifficultyInputs},
        n \in {None} \cup {Some(x) : x \in NextTopNInputs}}

\* What a next request can come to, over every request body and every outcome of
\* get_random_question: an error, or a question with the effective values
NextOutcomesOf(session_data) ==
    UNION {LET effective_difficulty == Effective(request.difficulty, session_data.difficulty)
               effective_top_n == Effective(request.top_n, session_data.top_n)
           IN  {IF q.status # 200 THEN Err(q.status)
                ELSE [status |-> 200, question |-> q.question, request |-> request,
                      effective_difficulty |-> effective_difficulty,
                      effective_top_n |-> effective_top_n] :
                   q \in get_random_question(effective_difficulty, effective_top_n)} :
           request \in NextRequests}

\* the same, computed once per stored difficulty and top_n
NextOutcomeTable ==
    [d \in Difficulties, n \in TopNInputs \cup NextTopNInputs |->
        NextOutcomesOf([difficulty |-> d, top_n |-> n])]
NextOutcomes(session_data) == NextOutcomeTable[session_data.difficulty, session_data.top_n]

\* POST /session/{id}/next: get_next_question from the effective values to the write-back and the response
get_next_question(t) ==
    /\ thread[t].pc = "read"
    /\ UNCHANGED requests
    /\ UNCHANGED <<now, sweep, used, lastCall>>
    /\ LET session_data == thread[t].session_data[1]
           sid == thread[t].sid
       IN  \E o \in NextOutcomes(session_data) :
            IF o.status # 200
            THEN Reply(t, "next", sid, o) /\ StoreSame /\ UNCHANGED client
            ELSE LET new == NextQuestionData(session_data, o.question,
                                             o.effective_difficulty, o.effective_top_n, now)
                 IN  /\ StoreBecomes(update(storage, expiry, now, Key(sid), new))
                     /\ client' = [client EXCEPT
                            ![sid].player_id = o.question.player_id,
                            ![sid].difficulty = IF o.request.difficulty # None
                                                THEN o.request.difficulty[1] ELSE @,
                            ![sid].top_n = IF o.request.top_n # None
                                           THEN o.request.top_n[1] ELSE @]
                     /\ thread' = [thread EXCEPT ![t] = IdleThread]
                     /\ lastResp' = [op |-> "next", sid |-> sid, request |-> Some(o.request),
                                     body |-> [status |-> 200, question |-> o.question,
                                               session_score |-> new.score,
                                               total_attempts |-> new.total_attempts]]

\* DELETE /session/{id}: end_session from the final stats to storage.delete and the response
end_session(t) ==
    /\ thread[t].pc = "read"
    /\ UNCHANGED requests
    /\ UNCHANGED <<now, sweep, used, lastCall>>
    /\ LET sid == thread[t].sid
       IN  /\ StoreBecomes(delete(storage, expiry, Key(sid)))
           /\ client' = [client EXCEPT ![sid].ended = TRUE]
           /\ Reply(t, "end", sid, FinalStats(sid, thread[t].session_data[1], now))

\* GET /session/{id}/status
get_session_status(t) ==
    /\ Receive(t)
    /\ UNCHANGED <<now, sweep, used, client, lastCall>>
    /\ \E sid \in SessionIds :
        LET r == get(storage, expiry, now, Key(sid))
        IN  /\ StoreBecomes(r)
            /\ Reply(t, "status", sid,
                     IF r.ret = None THEN Err(404) ELSE StatusBody(r.ret[1]))

----------------------------------------------------------------------------
(* cleanup_sessions_task: after each sleep, cleanup_expired reads the clock,    *)
(* lists the expired keys and deletes them one by one.                          *)

cleanup_begin ==
    /\ sweep.pc = "sleep"
    /\ expired_keys(expiry, now) # {}
    /\ sweep' = [pc |-> "deleting", keys |-> expired_keys(expiry, now)]
    /\ lastResp' = NoResp
    /\ UNCHANGED <<storage, expiry, now, thread, used, client, deadline, requests, lastCall>>

cleanup_delete ==
    /\ sweep.pc = "deleting"
    /\ \E key \in sweep.keys :
        LET d == delete(storage, expiry, key)
        IN  /\ StoreBecomes(d)
            /\ lastCall' = [Call("delete", key, None) EXCEPT !.ok = d.ret]
            /\ sweep' = IF sweep.keys = {key} THEN [pc |-> "sleep", keys |-> {}]
                        ELSE [sweep EXCEPT !.keys = @ \ {key}]
    /\ lastResp' = NoResp
    /\ UNCHANGED <<now, thread, used, client, requests>>

Tick ==
    /\ now < MaxTime
    /\ now' = now + 1
    /\ lastResp' = NoResp
    /\ UNCHANGED <<storage, expiry, thread, sweep, used, client, deadline, requests, lastCall>>

Step(t) ==
    \/ start_session(t)
    \/ invalid_session_id(t)
    \/ submit_guess_rejected(t)
    \/ get_session(t)
    \/ submit_guess(t)
    \/ get_next_question(t)
    \/ end_session(t)
    \/ get_session_status(t)

Next ==
    \/ \E t \in Threads : Step(t)
    \/ cleanup_begin
    \/ cleanup_delete
    \/ Tick

Spec == Init /\ [][Next]_vars

\* requests served one at a time: a request starts only when no other is in flight
Quiet(t) == \A u \in Threads \ {t} : thread[u].pc = "idle"

NextSeq ==
    \/ \E t \in Threads : Quiet(t) /\ start_session(t)
    \/ \E t \in Threads : Quiet(t) /\ invalid_session_id(t)
    \/ \E t \in Threads : Quiet(t) /\ submit_guess_rejected(t)
    \/ \E t \in Threads : Quiet(t) /\ get_session(t)
    \/ \E t \in Threads : Quiet(t) /\ submit_guess(t)
    \/ \E t \in Threads : Quiet(t) /\ get_next_question(t)
    \/ \E t \in Threads : Quiet(t) /\ end_session(t)
    \/ \E t \in Threads : Quiet(t) /\ get_session_status(t)
    \/ cleanup_begin
    \/ cleanup_delete
    \/ Tick

SpecSeq == Init /\ [][NextSeq]_vars

\* The listing of cleanup_expired runs on the event loop while the handlers run on
\* worker threads: when a handler adds or removes a key during the iteration over
\* _expiry, the iteration raises, nothing is deleted, cleanup_sessions_task logs the
\* error and goes back to sleep.
cleanup_raises ==
    /\ sweep.pc = "sleep"
    /\ DOMAIN expiry # {}
    /\ lastCall' = Call("cleanup_expired_raised", Key("none"), None)
    /\ lastResp' = NoResp
    /\ UNCHANGED <<storage, expiry, now, thread, sweep, used, client, deadline, requests>>

\* the clock does not stop while an entry has its deadline ahead
TickOn ==
    /\ \/ now < MaxTime
       \/ \E key \in DOMAIN expiry : now <= expiry[key]
    /\ now' = now + 1
    /\ lastResp' = NoResp
    /\ UNCHANGED <<storage, expiry, thread, sweep, used, client, deadline, requests, lastCall>>

NextLive ==
    \/ \E t \in Threads : Step(t)
    \/ cleanup_begin
    \/ cleanup_delete
    \/ cleanup_raises
    \/ TickOn

\* Time passes, and the task's loop keeps running: a sweep whose listing is due is
\* made and completes, and a sweep that has listed its keys deletes them.  Nothing is
\* assumed of the clients.
SpecLive ==
    /\ Init
    /\ [][NextLive]_vars
    /\ WF_vars(TickOn)
    /\ WF_vars(cleanup_begin)
    /\ WF_vars(cleanup_delete)

----------------------------------------------------------------------------
(* The store on its own: any caller, any sequence of calls.  Each call is   *)
(* one step; the clock moves between calls.                                 *)

StoreKeys == {Key(s) : s \in SessionIds}
StoreValues == {"v1", "v2"}
StoreTTLs == {1, 2}

StoreCall(r, setKeys, ttl, call) ==
    /\ storage' = r.storage
    /\ expiry' = r.expiry
    /\ deadline' = Track(r.storage, setKeys, ttl)
    /\ lastCall' = call
    /\ UNCHANGED <<now, thread, lastResp, sweep, used, client, requests>>

store_set ==
    \E key \in StoreKeys, value \in StoreValues, ttl \in StoreTTLs :
        LET r == set(storage, expiry, now, key, value, ttl)
        IN  StoreCall(r, {key}, ttl, [Call("set", key, Some(value)) EXCEPT !.ok = r.ret])

store_get ==
    \E key \in StoreKeys :
        LET r == get(storage, expiry, now, key)
        IN  StoreCall(r, {}, 0, [Call("get", key, None) EXCEPT !.found = r.ret])

store_delete ==
    \E key \in StoreKeys :
        LET r == delete(storage, expiry, key)
        IN  StoreCall(r, {}, 0, [Call("delete", key, None) EXCEPT !.ok = r.ret])

store_exists ==
    \E key \in StoreKeys :
        LET r == exists(storage, expiry, now, key)
        IN  StoreCall(r, {}, 0, [Call("exists", key, None) EXCEPT !.ok = r.ret])

store_update ==
    \E key \in StoreKeys, value \in StoreValues :
        LET r == update(storage, expiry, now, key, value)
        IN  StoreCall(r, {}, 0, [Call("update", key, Some(value)) EXCEPT !.ok = r.ret])

store_cleanup_expired ==
    LET r == cleanup_expired(storage, expiry, now)
    IN  StoreCall(r, {}, 0, [Call("cleanup_expired", Key("none"), None) EXCEPT !.count = r.ret])

store_get_all_keys ==
    LET r == get_all_keys(storage, expiry, now)
    IN  StoreCall(r, {}, 0, [Call("get_all_keys", Key("none"), None) EXCEPT !.keys = r.ret])

NextStore ==
    \/ store_set
    \/ store_get
    \/ store_delete
    \/ store_exists
    \/ store_update
    \/ store_cleanup_expired
    \/ store_get_all_keys
    \/ Tick

SpecStore == Init /\ [][NextStore]_vars

----------------------------------------------------------------------------
(* GameService on its own: any call of get_random_question and check_guess, *)
(* under any behaviour of the Question Store.  Each call is one step; its   *)
(* arguments and what it returned or raised show in lastResp.               *)

GameDifficultyInputs == Difficulties \cup {"easy"}
GameTopNInputs == {-1, 0, 1, 2, 5000, 10000}
GamePlayerInputs == PlayerIds \cup {"p9"}
ThresholdInputs == {85, 101}

GameGuessInputs ==
    {<<"a", "b", "c", "d">>,                  \* the name of p1 in lower case
     <<"A", "B", "C", "D">>,                  \* the name of p1 in upper case
     <<"b", "x">>,                            \* the name of p2 in lower case
     <<"A", "b", "c">>,                       \* the name of p1 less its last letter
     <<"A", "b", "c", " ", "d">>,             \* the name of p1 with a space in it
     <<"A", "b">>,                            \* half the name of p1
     <<" ", "A", "b", "c", "d", "!", " ">>,   \* the name of p1 before sanitizing
     <<"C", "y">>,                            \* the name of p3
     <<"!", "\t">>,                           \* nothing left after sanitizing
     << >>}

game_get_random_question ==
    /\ \E db \in DbBehaviours, difficulty \in GameDifficultyInputs, top_n \in GameTopNInputs :
        \E o \in get_random_question_on(db, difficulty, top_n) :
            lastResp' = [op |-> "get_random_question", sid |-> "none",
                         request |-> Some([db |-> db, difficulty |-> Some(difficulty), top_n |-> Some(top_n)]),
                         body |-> o]
    /\ UNCHANGED <<storage, expiry, now, thread, sweep, used, client, deadline, requests, lastCall>>

game_check_guess ==
    /\ \E db \in DbBehaviours, threshold \in ThresholdInputs,
       player_id \in GamePlayerInputs, guess \in GameGuessInputs :
        lastResp' = [op |-> "check_guess", sid |-> "none",
                     request |-> Some([db |-> db, guess |-> guess, player_id |-> player_id, threshold |-> threshold]),
                     body |-> check_guess_on(db, threshold, player_id, guess)]
    /\ UNCHANGED <<storage, expiry, now, thread, sweep, used, client, deadline, requests, lastCall>>

NextGame ==
    \/ game_get_random_question
    \/ game_check_guess

SpecGame == Init /\ [][NextGame]_vars

----------------------------------------------------------------------------
(* sanitize_guess on its own, and check_guess on what it is given: every     *)
(* guess of up to MaxGuessLen characters over a letter, a space and a        *)
(* character that sanitize_guess removes.                                    *)

MaxGuessLen == 4

SanitizeChars == {"a", " ", "!"}

SanitizeInputs == UNION {[1..n -> SanitizeChars] : n \in 0..MaxGuessLen}

InitSanitize ==
    /\ storage = EmptyMap
    /\ expiry = EmptyMap
    /\ now = 1
    /\ thread = [t \in Threads |-> IdleThread]
    /\ sweep = [pc |-> "sleep", keys |-> {}]
    /\ used = {}
    /\ client = [s \in SessionIds |-> NoView]
    /\ deadline = EmptyMap
    /\ requests = 0
    /\ lastCall = NoCall
    /\ \E guess \in SanitizeInputs :
        lastResp = [op |-> "guess", sid |-> "none", request |-> Some([guess |-> guess]),
                    body |-> Err(0)]

call_sanitize_guess ==
    /\ lastResp.op = "guess"
    /\ lastResp' = [op |-> "sanitize_guess", sid |-> "none", request |-> lastResp.request,
                    body |-> [status |-> 200,
                              guess |-> sanitize_guess(lastResp.request[1].guess)]]
    /\ UNCHANGED <<storage, expiry, now, thread, sweep, used, client, deadline, requests, lastCall>>

\* check_guess for a player that exists, the Question Store answering every query
call_check_guess ==
    /\ lastResp.op = "guess"
    /\ lastResp' = [op |-> "check_guess", sid |-> "none", request |-> lastResp.request,
                    body |-> check_guess_on("ok", fuzzy_match_threshold, "p1",
                                            lastResp.request[1].guess)]
    /\ UNCHANGED <<storage, expiry, now, thread, sweep, used, client, deadline, requests, lastCall>>

NextSanitize ==
    \/ call_sanitize_guess
    \/ call_check_guess

SpecSanitize == InitSanitize /\ [][NextSanitize]_vars

----------------------------------------------------------------------------
(* Sequence Cleaner (scraper/data_preparation/create_sequence.py).  Club    *)
(* names and fee descriptors are strings the code searches for substrings,  *)
(* so they are sequences of one-character strings.  A transfer record      *)
(* carries its position in the list as season and as to_club_image_url, so *)
(* that a stint shows which record each of its fields was taken from.      *)

\* needle in hay, for Python strings
Contains(needle, hay) ==
    \E k \in 0..(Len(hay) - Len(needle)) : SubSeq(hay, k + 1, k + Len(needle)) = needle

\* s.endswith(suffix)
EndsWith(s, suffix) ==
    Len(s) >= Len(suffix) /\ SubSeq(s, Len(s) - Len(suffix) + 1, Len(s)) = suffix

youth_keywords ==
    {<<"u", "1", "6">>, <<"u", "1", "7">>, <<"u", "1", "8">>, <<"u", "1", "9">>,
     <<"u", "2", "0">>, <<"u", "2", "1">>, <<"u", "2", "2">>, <<"u", "2", "3">>,
     <<"u", "1", "5">>, <<"s", "u", "b", "-", "1", "5">>, <<"s", "u", "b", "-", "1", "7">>,
     <<"s", "u", "b", "-", "1", "9">>, <<"s", "u", "b", "-", "2", "0">>,
     <<"s", "u", "b", "-", "2", "1">>, <<"y", "o", "u", "t", "h">>,
     <<"r", "e", "s", "e", "r", "v", "e">>, <<"r", "e", "s", "e", "r", "v", "e", "s">>,
     <<"y", "t", "h", ".">>, <<"y", "t", "h">>, <<"y", "o", "u", ".">>,
     <<"b", " ", "t", "e", "a", "m">>, <<"b", "-", "t", "e", "a", "m">>,
     <<"a", "c", "a", "d", ".">>, <<"a", "c", "a", "d", "e", "m", "y">>, <<"i", "i">>,
     <<"i", "i", " ", "t", "e", "a", "m">>, <<"i", "i", "-", "t", "e", "a", "m">>,
     <<"j", "g", "d", ".">>, <<"j", "o", "n", "g">>, <<"j", "r", "s", ".">>,
     <<"u", "n", "d", "e", "r", " ", "1", "8">>, <<"u", "n", "d", "e", "r", " ", "1", "9">>,
     <<"u", "n", "d", "e", "r", " ", "2", "1">>, <<"u", "n", "d", "e", "r", " ", "2", "3">>,
     <<"u", "-", "1", "8">>, <<"u", "-", "1", "9">>, <<"u", "-", "2", "1">>,
     <<"u", "-", "2", "3">>, <<"j", "u", "v", "e", "n", "i", "l">>,
     <<"j", "u", "v", "e", "n", "i", "l", "e">>,
     <<"w", "i", "t", "h", "o", "u", "t", " ", "c", "l", "u", "b">>}

\* None, which the function returns when nothing matches, is false to its caller
is_youth_or_reserve_club(club_name) ==
    /\ club_name # << >>
    /\ \/ \E keyword \in youth_keywords : Contains(keyword, lower(strip(club_name)))
       \/ EndsWith(club_name, <<" ", "B">>)
       \/ EndsWith(club_name, <<" ", "C">>)
       \/ EndsWith(club_name, <<" ", "D">>)

\* the substrings build_cleaned_sequence looks for in a lower-cased fee
has_loan_transfer(fee) == Contains(<<"l", "o", "a", "n", " ", "t", "r", "a", "n", "s", "f", "e", "r">>, fee)
has_loan(fee) == Contains(<<"l", "o", "a", "n">>, fee)
has_end_of(fee) == Contains(<<"e", "n", "d", " ", "o", "f">>, fee)
has_end_of_loan(fee) == Contains(<<"e", "n", "d", " ", "o", "f", " ", "l", "o", "a", "n">>, fee)

\* The inputs: two senior clubs, a club named by a youth keyword and one named as a
\* B team; a loan, an end of loan and a fee that says nothing
ClubInputs ==
    {<<"A", "b">>,
     <<"C", "d">>,
     <<"A", "b", " ", "U", "1", "9">>,
     <<"C", "d", " ", "B">>}

FeeInputs ==
    {<<"l", "o", "a", "n", " ", "t", "r", "a", "n", "s", "f", "e", "r">>,
     <<"E", "n", "d", " ", "o", "f", " ", "l", "o", "a", "n">>,
     << >>}

\* a fee that is no loan and is not among the inputs
FreeTransfer == <<"f", "r", "e", "e", " ", "t", "r", "a", "n", "s", "f", "e", "r">>

\* the tests build_cleaned_sequence makes on fee = (t.get('fee') or '').lower()
FeeTests(raw_fee) ==
    LET fee == lower(raw_fee)
    IN  [nonempty |-> fee # << >>,
         loan_transfer |-> has_loan_transfer(fee),
         loan |-> has_loan(fee),
         end_of |-> has_end_of(fee),
         end_of_loan |-> has_end_of_loan(fee)]

\* the same and the classification of the club, computed once per fee and per club
\* of the inputs
FeeTable == [raw_fee \in FeeInputs \cup {FreeTransfer} |-> FeeTests(raw_fee)]
YouthTable == [club_name \in ClubInputs |-> is_youth_or_reserve_club(club_name)]
fee_tests(raw_fee) == FeeTable[raw_fee]
is_youth(club_name) == YouthTable[club_name]

Stint(club, logo, season, fee, is_loan) ==
    [club |-> club, logo |-> logo, season |-> season, fee |-> fee, is_loan |-> is_loan]

\* variant: the scan stops at the record right after the loan
LoanLookahead_next_record(transfers_list, j) == j

\* the scan of a loan record for the record after the loan: the first position from
\* j on whose fee is not an end of loan, or one past the end of the list
RECURSIVE LoanLookahead(_, _)
LoanLookahead(transfers_list, j) ==
    IF j > Len(transfers_list) THEN j
    ELSE IF fee_tests(transfers_list[j].fee).end_of_loan THEN LoanLookahead(transfers_list, j + 1)
         ELSE j

\* One turn of the while loop for a record that is not youth / reserve: the next
\* position and the stints so far
handle_record(transfers_list, i, cleaned) ==
    LET t == transfers_list[i]
        club == t.to_club
        fee == fee_tests(t.fee)
        is_loan == fee.loan_transfer \/ (fee.nonempty /\ fee.loan /\ ~fee.end_of)
        is_end_of_loan == fee.end_of_loan
        own(loan) == Stint(club, t.to_club_image_url, t.season, t.fee, loan)
        j == LoanLookahead(transfers_list, i + 1)
    IN  IF is_end_of_loan
        THEN IF i + 1 <= Len(transfers_list)
                  /\ fee_tests(transfers_list[i + 1].fee).loan
                  /\ ~fee_tests(transfers_list[i + 1].fee).end_of
             THEN [i |-> i + 1, cleaned |-> cleaned]
             ELSE [i |-> i + 1, cleaned |-> Append(cleaned, own(FALSE))]
        ELSE IF is_loan
        THEN IF j > Len(transfers_list)
             THEN [i |-> i + 1, cleaned |-> Append(cleaned, own(TRUE))]
             ELSE IF transfers_list[j].to_club = club /\ ~fee_tests(transfers_list[j].fee).loan
                  THEN [i |-> j + 1,
                        cleaned |-> Append(cleaned,
                                           Stint(club, t.to_club_image_url,
                                                 transfers_list[j].season,
                                                 transfers_list[j].fee, FALSE))]
                  ELSE [i |-> i + 1, cleaned |-> Append(cleaned, own(TRUE))]
        ELSE [i |-> i + 1, cleaned |-> Append(cleaned, own(FALSE))]

\* variant: no record is dropped for its club
loop_body_unfiltered(transfers_list, i, cleaned) == handle_record(transfers_list, i, cleaned)

\* One turn of the while loop
loop_body(transfers_list, i, cleaned) ==
    IF is_youth(transfers_list[i].to_club)
    THEN [i |-> i + 1, cleaned |-> cleaned]
    ELSE handle_record(transfers_list, i, cleaned)

RECURSIVE while_loop(_, _, _)
while_loop(transfers_list, i, cleaned) ==
    IF i > Len(transfers_list) THEN cleaned
    ELSE LET next == loop_body(transfers_list, i, cleaned)
         IN  while_loop(transfers_list, next.i, next.cleaned)

\* variants: one that keeps every stint, one that returns the stints latest first
final_cleaned_keeping_all(cleaned) == cleaned

final_cleaned_latest_first(cleaned) ==
    LET kept == SelectSeq([idx \in 1..Len(cleaned) |-> [idx |-> idx, c |-> cleaned[idx]]],
                          LAMBDA e : e.idx = 1 \/ e.c.club # cleaned[e.idx - 1].club)
    IN  [k \in 1..Len(kept) |-> kept[Len(kept) + 1 - k].c]

\* the stints that do not repeat the club of the stint before them
final_cleaned(cleaned) ==
    LET kept == SelectSeq([idx \in 1..Len(cleaned) |-> [idx |-> idx, c |-> cleaned[idx]]],
                          LAMBDA e : e.idx = 1 \/ e.c.club # cleaned[e.idx - 1].club)
    IN  [k \in 1..Len(kept) |-> kept[k].c]

build_cleaned_sequence(transfers_list) ==
    final_cleaned(while_loop(transfers_list, 1, << >>))

MaxTransfers == 4

\* transfers.to_dict('records'): the rows of one player
TransferLists ==
    UNION {[1..n -> ClubInputs \X FeeInputs] : n \in 0..MaxTransfers}

TransfersOf(rows) ==
    [i \in 1..Len(rows) |->
        [to_club |-> rows[i][1], fee |-> rows[i][2], season |-> i, to_club_image_url |-> i]]

InitCleaner ==
    /\ storage = EmptyMap
    /\ expiry = EmptyMap
    /\ now = 1
    /\ thread = [t \in Threads |-> IdleThread]
    /\ sweep = [pc |-> "sleep", keys |-> {}]
    /\ used = {}
    /\ client = [s \in SessionIds |-> NoView]
    /\ deadline = EmptyMap
    /\ requests = 0
    /\ lastCall = NoCall
    /\ \E rows \in TransferLists :
        lastResp = [op |-> "build_cleaned_sequence", sid |-> "none",
                    request |-> Some([transfers_list |-> TransfersOf(rows)]),
                    body |-> Err(0)]

call_build_cleaned_sequence ==
    /\ lastResp.op = "build_cleaned_sequence"
    /\ lastResp.body.status = 0
    /\ lastResp' = [lastResp EXCEPT
                        !.body = [status |-> 200,
                                  cleaned |-> build_cleaned_sequence(lastResp.request[1].transfers_list)]]
    /\ UNCHANGED <<storage, expiry, now, thread, sweep, used, client, deadline, requests, lastCall>>

NextCleaner == call_build_cleaned_sequence

SpecCleaner == InitCleaner /\ [][NextCleaner]_vars

----------------------------------------------------------------------------
(* Sequence Classifier (create_sequence.py, main): get_all_sequences builds  *)
(* one record per player whose cleaned sequence is not empty,                *)
(* categorize_by_difficulty adds the share count and the difficulty, and     *)
(* store_difficulty_analysis drops the table and inserts the batch.          *)

MaxMoves == 8

\* a cleaned sequence of n stints that alternates between two clubs
Alternating(first, second, n) ==
    [k \in 1..n |-> Stint(IF k % 2 = 1 THEN first ELSE second, k, k, << >>, FALSE)]

\* the cleaned sequences of the batch: every length up to MaxMoves, two sequences
\* per length
CleanedInputs ==
    {Alternating(<<"A", "b">>, <<"C", "d">>, n) : n \in 1..MaxMoves}
        \cup {Alternating(<<"C", "d">>, <<"A", "b">>, n) : n \in 1..MaxMoves}

\* ' → '.join(club_names)
RECURSIVE join(_, _)
join(separator, club_names) ==
    IF club_names = << >> THEN << >>
    ELSE IF Len(club_names) = 1 THEN club_names[1]
    ELSE club_names[1] \o separator \o join(separator, Tail(club_names))

sequence_record(player_id, cleaned) ==
    [player_id |-> player_id,
     player_name |-> sequence_analysis[player_id].player_name,
     market_value_numeric |-> sequence_analysis[player_id].market_value_numeric,
     num_moves |-> Len(cleaned),
     sequence_string |-> join(<<" ", "→", " ">>, [k \in 1..Len(cleaned) |-> cleaned[k].club]),
     clubs |-> cleaned]

\* players ORDER BY player_name
PlayersByName == <<"p1", "p2", "p3">>

\* what get_all_sequences returns: the players in order, without those that have no
\* transfer or whose cleaned sequence is empty
get_all_sequences(cleaned_of) ==
    LET listed == SelectSeq(PlayersByName, LAMBDA p : p \in DOMAIN cleaned_of)
    IN  [k \in 1..Len(listed) |-> sequence_record(listed[k], cleaned_of[listed[k]])]

\* variant: a sequence's count leaves out the record it is stored on
num_players_with_seq_others(sequences, sequence_string) ==
    Cardinality({k \in 1..Len(sequences) : sequences[k].sequence_string = sequence_string}) - 1

\* Counter([s['sequence_string'] for s in sequences])[sequence_string]
num_players_with_seq(sequences, sequence_string) ==
    Cardinality({k \in 1..Len(sequences) : sequences[k].sequence_string = sequence_string})

\* variant: four moves are moderate already
difficulty_of_moves_below_four(num_moves) ==
    IF num_moves < 4 THEN "short"
    ELSE IF num_moves <= 7 THEN "moderate"
    ELSE "long"

difficulty_of_moves(num_moves) ==
    IF num_moves <= 4 THEN "short"
    ELSE IF num_moves <= 7 THEN "moderate"
    ELSE "long"

Categorized(seq, count, difficulty) ==
    [player_id |-> seq.player_id,
     player_name |-> seq.player_name,
     market_value_numeric |-> seq.market_value_numeric,
     num_moves |-> seq.num_moves,
     sequence_string |-> seq.sequence_string,
     clubs |-> seq.clubs,
     num_players_with_seq |-> count,
     difficulty |-> difficulty]

categorize_by_difficulty(sequences) ==
    [k \in 1..Len(sequences) |->
        Categorized(sequences[k],
                    num_players_with_seq(sequences, sequences[k].sequence_string),
                    difficulty_of_moves(sequences[k].num_moves))]

\* the table after DROP, CREATE and one INSERT per record: a row per player_id, the
\* primary key.  club_jsons, which nothing in the model reads, is left out.
store_difficulty_analysis(sequences) ==
    [player_id \in {sequences[k].player_id : k \in 1..Len(sequences)} |->
        LET seq == sequences[CHOOSE k \in 1..Len(sequences) : sequences[k].player_id = player_id]
        IN  [player_id |-> seq.player_id,
             player_name |-> seq.player_name,
             market_value_numeric |-> seq.market_value_numeric,
             num_moves |-> seq.num_moves,
             num_players_with_same_seq |-> seq.num_players_with_seq,
             difficulty |-> seq.difficulty,
             sequence_string |-> seq.sequence_string]]

InitClassifier ==
    /\ storage = EmptyMap
    /\ expiry = EmptyMap
    /\ now = 1
    /\ thread = [t \in Threads |-> IdleThread]
    /\ sweep = [pc |-> "sleep", keys |-> {}]
    /\ used = {}
    /\ client = [s \in SessionIds |-> NoView]
    /\ deadline = EmptyMap
    /\ requests = 0
    /\ lastCall = NoCall
    /\ \E with_sequence \in SUBSET PlayerIds :
        \E cleaned_of \in [with_sequence -> CleanedInputs] :
            lastResp = [op |-> "get_all_sequences", sid |-> "none", request |-> None,
                        body |-> [status |-> 200, sequences |-> get_all_sequences(cleaned_of)]]

\* main: sequences = categorize_by_difficulty(sequences), unless no sequence was built
call_categorize_by_difficulty ==
    /\ lastResp.op = "get_all_sequences"
    /\ Len(lastResp.body.sequences) > 0
    /\ lastResp' = [op |-> "categorize_by_difficulty", sid |-> "none",
                    request |-> Some([sequences |-> lastResp.body.sequences]),
                    body |-> [status |-> 200,
                              sequences |-> categorize_by_difficulty(lastResp.body.sequences)]]
    /\ UNCHANGED <<storage, expiry, now, thread, sweep, used, client, deadline, requests, lastCall>>

\* main: store_difficulty_analysis(conn, sequences)
call_store_difficulty_analysis ==
    /\ lastResp.op = "categorize_by_difficulty"
    /\ lastResp' = [op |-> "store_difficulty_analysis", sid |-> "none",
                    request |-> Some([sequences |-> lastResp.body.sequences]),
                    body |-> [status |-> 200,
                              sequence_analysis |-> store_difficulty_analysis(lastResp.body.sequences)]]
    /\ UNCHANGED <<storage, expiry, now, thread, sweep, used, client, deadline, requests, lastCall>>

NextClassifier ==
    \/ call_categorize_by_difficulty
    \/ call_store_difficulty_analysis

SpecClassifier == InitClassifier /\ [][NextClassifier]_vars

----------------------------------------------------------------------------
(* Properties.  A step that answers a request shows in lastResp'; the       *)
(* thread that took it went from "read" to "idle", or served the request    *)
(* in that one step (thread' = thread).                                     *)

SessionOps == {"guess", "next", "end", "status"}
PlayerName(p) == sequence_analysis[p].player_name
Answered(op) == lastResp'.op = op /\ lastResp'.body.status = 200
Bonus(correct) == IF correct THEN 1 ELSE 0
SessionDeadline(s) == client[s].created_at + SessionTTL

\* C1: served one request at a time, every guess that is evaluated is evaluated
\* against the player of the question the client last received from create or
\* advance for that session, and that player is the current_question_player_id the
\* stored record holds; the guess request carries no player id.
C1_AntiCheat ==
    [][/\ Answered("guess") =>
            lastResp'.body.actual_answer = PlayerName(client[lastResp'.sid].player_id)
       /\ \A s \in SessionIds :
            Key(s) \in DOMAIN storage' =>
                storage'[Key(s)].current_question_player_id = client'[s].player_id]_vars

\* a guess answered as correct for p3, in a session that an advance moved to top_n = 2
C1_Witness ==
    /\ lastResp.op = "guess"
    /\ lastResp.body.status = 200
    /\ lastResp.body.correct
    /\ lastResp.body.actual_answer = PlayerName("p3")
    /\ Key(lastResp.sid) \in DOMAIN storage
    /\ storage[Key(lastResp.sid)].top_n = 2

\* C2: in every interleaving, a guess answered with success on a session that is live
\* at the write, by a request whose read is still the stored record (no other request
\* wrote the session in between), raises the stored total_attempts by 1, raises the
\* stored score and correct_guesses by 1 each if the answer is correct and by 0 if
\* not, and returns the stored session_score and total_attempts.
C2_GuessCounters ==
    [][\A t \in Threads :
        LET k == Key(thread[t].sid)
        IN  (thread[t].pc = "read" /\ thread'[t].pc = "idle" /\ Answered("guess")
                /\ k \in DOMAIN storage' /\ storage[k] = thread[t].session_data[1]) =>
                /\ storage'[k].total_attempts = storage[k].total_attempts + 1
                /\ storage'[k].score = storage[k].score + Bonus(lastResp'.body.correct)
                /\ storage'[k].correct_guesses =
                       storage[k].correct_guesses + Bonus(lastResp'.body.correct)
                /\ lastResp'.body.session_score = storage'[k].score
                /\ lastResp'.body.total_attempts = storage'[k].total_attempts]_vars

\* a second guess, answered as wrong, on a session whose first guess was correct
C2_Witness ==
    /\ lastResp.op = "guess"
    /\ lastResp.body.status = 200
    /\ ~lastResp.body.correct
    /\ Key(lastResp.sid) \in DOMAIN storage
    /\ storage[Key(lastResp.sid)].total_attempts = 2
    /\ storage[Key(lastResp.sid)].score = 1
    /\ storage[Key(lastResp.sid)].correct_guesses = 1

\* C3: for every sequence of store calls, each stored key's expiry is the set time
\* plus the ttl of its last set; an update that succeeds replaces the value and leaves
\* the expiry as it was; a get, exists or update of a stored key after that deadline
\* finds it absent and removes it.
C3_UpdateKeepsDeadline ==
    [][now' = now =>
        LET key == lastCall'.key
        IN  /\ \A k \in DOMAIN storage' : k \in DOMAIN expiry' /\ expiry'[k] = deadline'[k]
            /\ (lastCall'.op = "update" /\ lastCall'.ok) =>
                    /\ key \in DOMAIN storage
                    /\ storage'[key] = lastCall'.value[1]
                    /\ expiry'[key] = expiry[key]
                    /\ expiry'[key] = deadline[key]
            /\ (lastCall'.op \in {"get", "exists", "update"}
                    /\ key \in DOMAIN storage /\ now > deadline[key]) =>
                    /\ key \notin DOMAIN storage'
                    /\ lastCall'.found = None
                    /\ ~lastCall'.ok]_vars

\* an update that succeeds at the very deadline of the key, with a new value
C3_Witness ==
    /\ lastCall.op = "update"
    /\ lastCall.ok
    /\ lastCall.key \in DOMAIN storage
    /\ storage[lastCall.key] = "v2"
    /\ now = deadline[lastCall.key]
    /\ expiry[lastCall.key] = now

\* C4: a stored session's expiry is its creation time plus the session TTL at every
\* moment; no request is let past its read after that deadline, and every request
\* on the session that starts after it is answered 404.
C4_FixedDeadline ==
    [][/\ \A s \in SessionIds :
            Key(s) \in DOMAIN storage' =>
                /\ Key(s) \in DOMAIN expiry'
                /\ expiry'[Key(s)] = client'[s].created_at + SessionTTL
                /\ storage'[Key(s)].created_at = client'[s].created_at
       /\ \A t \in Threads :
            (thread[t].pc = "idle" /\ thread'[t].pc = "read") =>
                now <= SessionDeadline(thread'[t].sid)
       /\ (thread' = thread /\ lastResp'.op \in SessionOps /\ lastResp'.sid \in used
              /\ lastResp'.body.status # 422 /\ now > SessionDeadline(lastResp'.sid)) =>
                lastResp'.body.status = 404]_vars

\* a request answered 404 after the deadline of a session that was never ended and
\* had a guess answered before
C4_Witness ==
    /\ lastResp.op \in SessionOps
    /\ lastResp.body.status = 404
    /\ lastResp.sid \in used
    /\ ~client[lastResp.sid].ended
    /\ client[lastResp.sid].answered >= 1
    /\ now > SessionDeadline(lastResp.sid)

\* C5: get of a stored key whose deadline has passed returns absent and removes the
\* key from _storage and _expiry, leaving the other keys alone; get of a stored key
\* whose deadline has not passed returns its value and leaves the store as it is; get
\* of a key the store does not hold returns absent and leaves the store as it is.
C5_GetCases ==
    [][(now' = now /\ lastCall'.op = "get") =>
        LET key == lastCall'.key
        IN  IF key \in DOMAIN storage /\ now > deadline[key]
            THEN /\ lastCall'.found = None
                 /\ storage' = Pop(storage, key)
                 /\ expiry' = Pop(expiry, key)
            ELSE /\ storage' = storage
                 /\ expiry' = expiry
                 /\ lastCall'.found = IF key \in DOMAIN storage THEN Some(storage[key])
                                      ELSE None]_vars

\* a get that found its key stored, returned absent and left neither value nor deadline
C5_Witness ==
    /\ lastCall.op = "get"
    /\ lastCall.present
    /\ lastCall.found = None
    /\ lastCall.key \notin DOMAIN storage
    /\ lastCall.key \notin DOMAIN expiry
    /\ DOMAIN storage # {}

\* C6: once an end was answered with success the session is in the store at no later
\* moment, no request gets past its read of it, and every request on it that starts
\* afterwards is answered 404.
C6_EndIsFinal ==
    [][/\ \A s \in SessionIds :
            (client[s].ended \/ client'[s].ended) => Key(s) \notin DOMAIN storage'
       /\ \A t \in Threads :
            (thread[t].pc = "idle" /\ thread'[t].pc = "read") =>
                ~client[thread'[t].sid].ended
       /\ (thread' = thread /\ lastResp'.op \in SessionOps /\ lastResp'.sid \in used
              /\ lastResp'.body.status # 422 /\ client[lastResp'.sid].ended) =>
                lastResp'.body.status = 404]_vars

\* a request answered 404 on an ended session whose deadline has not passed
C6_Witness ==
    /\ lastResp.op \in SessionOps
    /\ lastResp.body.status = 404
    /\ lastResp.sid \in used
    /\ client[lastResp.sid].ended
    /\ now <= SessionDeadline(lastResp.sid)

\* C7: served one request at a time, an advance answered with success picks its
\* question from the pool of the supplied difficulty / top_n where the request
\* supplies one and of the stored one where it omits it, and stores exactly these
\* values; so the stored values are at every moment the ones most recently supplied.
C7_StickyOverride ==
    [][\A s \in SessionIds :
        /\ (Answered("next") /\ lastResp'.sid = s /\ Key(s) \in DOMAIN storage) =>
            LET request == lastResp'.request[1]
                old == storage[Key(s)]
                difficulty == IF request.difficulty = None THEN old.difficulty
                              ELSE request.difficulty[1]
                top_n == IF request.top_n = None THEN old.top_n ELSE request.top_n[1]
            IN  /\ lastResp'.body.question.player_id \in QuestionPool(difficulty, top_n)
                /\ Key(s) \in DOMAIN storage' =>
                        /\ storage'[Key(s)].difficulty = difficulty
                        /\ storage'[Key(s)].top_n = top_n
        /\ Key(s) \in DOMAIN storage' =>
                /\ storage'[Key(s)].difficulty = client'[s].difficulty
                /\ storage'[Key(s)].top_n = client'[s].top_n]_vars

\* an advance that omits both values, in a session that an earlier advance moved to
\* difficulty "long" and top_n = 2
C7_Witness ==
    /\ lastResp.op = "next"
    /\ lastResp.body.status = 200
    /\ lastResp.request[1].difficulty = None
    /\ lastResp.request[1].top_n = None
    /\ Key(lastResp.sid) \in DOMAIN storage
    /\ storage[Key(lastResp.sid)].top_n = 2
    /\ storage[Key(lastResp.sid)].difficulty = "long"
    /\ lastResp.body.question.player_id = "p3"

\* C8: in every interleaving, an advance answered with success on a session that is
\* live at the write, by a request whose read is still the stored record, leaves score,
\* total_attempts, correct_guesses, session_id and created_at of the stored record as
\* they were, and returns the stored score and total_attempts.
C8_AdvanceFrame ==
    [][\A t \in Threads :
        LET k == Key(thread[t].sid)
        IN  (thread[t].pc = "read" /\ thread'[t].pc = "idle" /\ Answered("next")
                /\ k \in DOMAIN storage' /\ storage[k] = thread[t].session_data[1]) =>
                /\ storage'[k].score = storage[k].score
                /\ storage'[k].total_attempts = storage[k].total_attempts
                /\ storage'[k].correct_guesses = storage[k].correct_guesses
                /\ storage'[k].session_id = storage[k].session_id
                /\ storage'[k].created_at = storage[k].created_at
                /\ lastResp'.body.session_score = storage'[k].score
                /\ lastResp'.body.total_attempts = storage'[k].total_attempts]_vars

\* an advance after a correct guess, at a later time than the creation
C8_Witness ==
    /\ lastResp.op = "next"
    /\ lastResp.body.status = 200
    /\ lastResp.body.total_attempts = 1
    /\ lastResp.body.session_score = 1
    /\ Key(lastResp.sid) \in DOMAIN storage
    /\ storage[Key(lastResp.sid)].last_activity > storage[Key(lastResp.sid)].created_at

\* C9: in every interleaving with the requests, each key a step of the sweep removes
\* is past its deadline at that step.
C9_SweepOnlyExpired ==
    [][(sweep.pc = "deleting" /\ sweep' # sweep) =>
        \A k \in DOMAIN storage \ DOMAIN storage' :
            /\ now > expiry[k]
            /\ now > deadline[k]]_vars

\* the sweep removed the session of a request that is between its read and its write
C9_Witness ==
    /\ lastCall.op = "delete"
    /\ lastCall.ok
    /\ \E t \in Threads : thread[t].pc = "read" /\ Key(thread[t].sid) = lastCall.key

\* C10: the write-back of a guess is the record the request read with its own
\* increments, whatever the store holds by then, so the stored total_attempts and
\* score never exceed, and can fall short of, the number of guesses answered with
\* success and as correct.
C10_LastWriteWins ==
    [][/\ \A t \in Threads :
            (thread[t].pc = "read" /\ thread'[t].pc = "idle" /\ Answered("guess")) =>
                LET read == thread[t].session_data[1]
                    k == Key(thread[t].sid)
                IN  /\ lastResp'.body.total_attempts = read.total_attempts + 1
                    /\ k \in DOMAIN storage' =>
                        /\ storage'[k].total_attempts = read.total_attempts + 1
                        /\ storage'[k].score = read.score + Bonus(lastResp'.body.correct)
       /\ \A s \in SessionIds :
            Key(s) \in DOMAIN storage' =>
                /\ storage'[Key(s)].total_attempts <= client'[s].answered
                /\ storage'[Key(s)].score <= client'[s].credited]_vars

\* two guesses answered with success and as correct, one attempt and one point stored
C10_Witness ==
    \E s \in SessionIds :
        /\ client[s].answered = 2
        /\ client[s].credited = 2
        /\ Key(s) \in DOMAIN storage
        /\ storage[Key(s)].total_attempts = 1
        /\ storage[Key(s)].score = 1
        /\ lastResp.op = "guess"
        /\ lastResp.body.status = 200

\* C11: in every interleaving of an advance and a guess on one session, once no
\* request is in flight the stored current_question_player_id is the player of the
\* question the advance returned to the client.  (Stated as the claim states it; the
\* write-back of a guess that read the session before the advance wrote puts the
\* earlier player back.)
C11_AdvanceSurvivesGuess ==
    \A s \in SessionIds :
        (Key(s) \in DOMAIN storage /\ \A t \in Threads : thread[t].pc = "idle") =>
            storage[Key(s)].current_question_player_id = client[s].player_id

\* a guess answered with success, no request in flight, and the stored player is not
\* the one of the question the client last received
C11_Witness ==
    /\ lastResp.op = "guess"
    /\ lastResp.body.status = 200
    /\ \A t \in Threads : thread[t].pc = "idle"
    /\ Key(lastResp.sid) \in DOMAIN storage
    /\ storage[Key(lastResp.sid)].current_question_player_id # client[lastResp.sid].player_id
    /\ lastResp.body.actual_answer # PlayerName(client[lastResp.sid].player_id)

\* C12: a start request with a valid difficulty and a top_n above 5000 is not
\* rejected; when it is answered with success the session is stored and its question
\* is one of the pool of top_n = 5000.  (Stated as the claim states it;
\* SessionStartRequest rejects such a body before create_session runs.)
C12_TopNAboveMaxAccepted ==
    (lastResp.op = "start" /\ lastResp.request[1].top_n[1] > TopNMax
        /\ lastResp.request[1].difficulty[1] \in Difficulties) =>
            /\ lastResp.body.status \notin {400, 422}
            /\ lastResp.body.status = 200 =>
                /\ Key(lastResp.sid) \in DOMAIN storage
                /\ lastResp.body.question.player_id \in
                        QuestionPool(lastResp.request[1].difficulty[1], TopNMax)

\* a start request with difficulty "short" and top_n = 10000 answered 422, and no
\* session stored
C12_Witness ==
    /\ lastResp.op = "start"
    /\ lastResp.request[1].difficulty[1] = "short"
    /\ lastResp.request[1].top_n[1] = 10000
    /\ lastResp.body.status = 422
    /\ lastResp.sid = "none"
    /\ storage = EmptyMap

C14_ExactMatch ==
    (lastResp.op = "check_guess" /\ lastResp.body.status = 200) =>
        LET player_id == lastResp.request[1].player_id
            guess == sanitize_guess(lastResp.request[1].guess)
        IN  (\E q \in SameSequence(player_id) : lower(guess) = lower(PlayerName(q))) =>
                /\ lastResp.body.correct
                /\ lastResp.body.similarity_score = 100

\* the name of p2, who shares the sequence of the target p1, returned as wrong
C14_Witness ==
    /\ lastResp.op = "check_guess"
    /\ lastResp.request[1].db = "second_query_fails"
    /\ lastResp.request[1].player_id = "p1"
    /\ lastResp.request[1].guess = <<"b", "x">>
    /\ "p2" \in SameSequence("p1")
    /\ lastResp.body.status = 200
    /\ ~lastResp.body.correct
    /\ lastResp.body.similarity_score < 100

\* C15: whenever check_guess returns, actual_answer is the name of the target; and
\* when no player with the target's sequence_string has the guess as name (trimmed,
\* ignoring case), correct says whether the greatest ratio between the sanitized
\* guess and the names of these players reaches the threshold, and similarity_score
\* is that ratio.  (Stated as the claim states it; when the query for the players
\* with the same sequence raises, the target's name is the only one compared.)
C15_FuzzyMatch ==
    (lastResp.op = "check_guess" /\ lastResp.body.status = 200) =>
        LET player_id == lastResp.request[1].player_id
            guess == sanitize_guess(lastResp.request[1].guess)
            names == {PlayerName(q) : q \in SameSequence(player_id)}
            best == CHOOSE x \in {ratio(guess, n) : n \in names} :
                        \A n \in names : x >= ratio(guess, n)
        IN  /\ lastResp.body.actual_answer = PlayerName(player_id)
            /\ (\A n \in names : lower(strip(guess)) # lower(n)) =>
                    /\ lastResp.body.correct <=> best >= lastResp.request[1].threshold
                    /\ lastResp.body.similarity_score = best

\* a guess within the threshold of the name of p1, who shares the sequence of the
\* target p2, returned as wrong with the ratio of the target's name
C15_Witness ==
    /\ lastResp.op = "check_guess"
    /\ lastResp.request[1].db = "second_query_fails"
    /\ lastResp.request[1].player_id = "p2"
    /\ lastResp.request[1].guess = <<"A", "b", "c">>
    /\ lastResp.request[1].threshold = 85
    /\ ratio(<<"A", "b", "c">>, PlayerName("p1")) >= 85
    /\ lastResp.body.status = 200
    /\ ~lastResp.body.correct
    /\ lastResp.body.similarity_score = ratio(<<"A", "b", "c">>, PlayerName("p2"))
    /\ lastResp.body.actual_answer = PlayerName("p2")

\* C16: every call of get_random_question or check_guess in which a query of the
\* Question Store raises ends with the internal error 500; none returns a result.
\* (Stated as the claim states it; check_guess catches a failure of its second
\* query and goes on with the target alone.)
C16_StoreFailureReported ==
    LET request == lastResp.request[1]
        query_raised ==
            \/ /\ lastResp.op = "get_random_question"
               /\ request.difficulty[1] \in Difficulties
               /\ request.db = "first_query_fails"
            \/ /\ lastResp.op = "check_guess"
               /\ sanitize_guess(request.guess) # << >>
               /\ \/ request.db = "first_query_fails"
                  \/ request.db = "second_query_fails" /\ request.player_id \in PlayerIds
    IN  query_raised => lastResp.body.status = 500

\* check_guess returned a result after its second query raised, with the target as
\* the only acceptable answer although another player shares its sequence
C16_Witness ==
    /\ lastResp.op = "check_guess"
    /\ lastResp.request[1].db = "second_query_fails"
    /\ lastResp.request[1].player_id = "p1"
    /\ lastResp.body.status = 200
    /\ lastResp.body.all_possible_answers = {PlayerName("p1")}
    /\ Cardinality(SameSequence("p1")) = 2

\* C17: a guess, next, end or status request whose session id is not a UUID (and
\* whose body passes the request schema) is answered 400, in the one step that
\* receives it, with no store call: _storage and _expiry stay as they are and no
\* request reads a session under that id.
C17_MalformedId ==
    [][/\ (lastResp'.op \in SessionOps /\ lastResp'.sid = MalformedId
              /\ lastResp'.body.status # 422) =>
                /\ lastResp'.body.status = 400
                /\ thread' = thread
                /\ storage' = storage
                /\ expiry' = expiry
       /\ \A t \in Threads : thread'[t].sid # MalformedId]_vars

\* a malformed id answered 400 while a session is stored and a request on it is
\* between its read and its write
C17_Witness ==
    /\ lastResp.op \in SessionOps
    /\ lastResp.sid = MalformedId
    /\ lastResp.body.status = 400
    /\ storage # EmptyMap
    /\ \E t \in Threads : thread[t].pc = "read"

\* what the cleaner claims are about: a call of build_cleaned_sequence that returned
Cleaned == lastResp.op = "build_cleaned_sequence" /\ lastResp.body.status = 200
ClubsOf(stints) == [k \in 1..Len(stints) |-> stints[k].club]
NonLoanFees == {<< >>, FreeTransfer}

\* each stint fed back as one transfer record to its club, with the given fee
AsTransfers(stints, fee) ==
    [k \in 1..Len(stints) |->
        [to_club |-> stints[k].club, fee |-> fee, season |-> stints[k].season,
         to_club_image_url |-> stints[k].logo]]

\* C18: for every list of transfer records, no two consecutive stints of the output
\* of build_cleaned_sequence have the same club name.
C18_NoAdjacentDuplicates ==
    Cleaned =>
        \A k \in 1..(Len(lastResp.body.cleaned) - 1) :
            lastResp.body.cleaned[k].club # lastResp.body.cleaned[k + 1].club

\* four records that the loop turned into four stints and the collapse into two
C18_Witness ==
    /\ Cleaned
    /\ Len(while_loop(lastResp.request[1].transfers_list, 1, << >>)) = 4
    /\ Len(lastResp.body.cleaned) = 2

\* C19: for every list of transfer records, the cleaner run on its own output, each
\* stint taken as one transfer record to the same club with a fee that is not a
\* loan, returns the same clubs in the same order.
C19_Idempotent ==
    Cleaned =>
        \A fee \in NonLoanFees :
            ClubsOf(build_cleaned_sequence(AsTransfers(lastResp.body.cleaned, fee)))
                = ClubsOf(lastResp.body.cleaned)

\* an output of three stints that comes back to its first club and holds a loan
C19_Witness ==
    /\ Cleaned
    /\ Len(lastResp.body.cleaned) = 3
    /\ lastResp.body.cleaned[1].club = lastResp.body.cleaned[3].club
    /\ lastResp.body.cleaned[1].is_loan
    /\ Len(lastResp.request[1].transfers_list) = 4

\* C20: for every list of transfer records, no stint of the output names a club that
\* is_youth_or_reserve_club classifies as youth / reserve, whatever the fees and
\* whatever records are around it.
C20_NoYouthStint ==
    Cleaned =>
        \A k \in 1..Len(lastResp.body.cleaned) :
            ~is_youth_or_reserve_club(lastResp.body.cleaned[k].club)

\* a loan to a senior club whose look-ahead meets a youth record, then a loan to a
\* youth club, then a senior club: two stints
C20_Witness ==
    /\ Cleaned
    /\ LET transfers_list == lastResp.request[1].transfers_list
       IN  /\ Len(transfers_list) = 4
           /\ ~is_youth_or_reserve_club(transfers_list[1].to_club)
           /\ has_loan(lower(transfers_list[1].fee))
           /\ is_youth_or_reserve_club(transfers_list[2].to_club)
           /\ ~has_end_of_loan(lower(transfers_list[2].fee))
           /\ is_youth_or_reserve_club(transfers_list[3].to_club)
           /\ has_loan_transfer(lower(transfers_list[3].fee))
           /\ ~is_youth_or_reserve_club(transfers_list[4].to_club)
    /\ Len(lastResp.body.cleaned) = 2

\* the stints the while loop of the call appended, before adjacent stints at one club
\* are collapsed
Emitted == while_loop(lastResp.request[1].transfers_list, 1, << >>)

\* the position of the first record after position i that is not an end of loan, or
\* 0 when every later record is one
AfterLoan(transfers_list, i) ==
    LET later == {j \in (i + 1)..Len(transfers_list) :
                      ~fee_tests(transfers_list[j].fee).end_of_loan}
    IN  IF later = {} THEN 0 ELSE CHOOSE j \in later : \A k \in later : j <= k

RECURSIVE Visited(_, _)
Visited(transfers_list, i) ==
    IF i > Len(transfers_list) THEN {}
    ELSE {i} \cup Visited(transfers_list, loop_body(transfers_list, i, << >>).i)

\* the position of the first record after position i whose club is not youth /
\* reserve, or 0 when there is none
NextSurviving(transfers_list, i) ==
    LET later == {j \in (i + 1)..Len(transfers_list) : ~is_youth(transfers_list[j].to_club)}
    IN  IF later = {} THEN 0 ELSE CHOOSE j \in later : \A k \in later : j <= k

\* C22: for every end of loan record to a club that is not youth / reserve, which
\* the loop handles: the record gives no stint exactly when the next record that the
\* youth / reserve filter does not drop is a loan; otherwise it gives one stint, at
\* its club, with is_loan false.  (Stated as the claim states it; the code looks at
\* the record right after it, dropped or not.)
C22_EndOfLoanRule ==
    Cleaned =>
        LET transfers_list == lastResp.request[1].transfers_list
            emitted == Emitted
        IN  \A i \in Visited(transfers_list, 1) :
                LET t == transfers_list[i]
                    n == NextSurviving(transfers_list, i)
                    next_is_loan == /\ n # 0
                                    /\ fee_tests(transfers_list[n].fee).loan
                                    /\ ~fee_tests(transfers_list[n].fee).end_of
                    mine == {k \in 1..Len(emitted) : emitted[k].logo = i}
                IN  (fee_tests(t.fee).end_of_loan /\ ~is_youth(t.to_club)) =>
                        IF next_is_loan
                        THEN mine = {}
                        ELSE /\ Cardinality(mine) = 1
                             /\ \A k \in mine : emitted[k].club = t.to_club /\ ~emitted[k].is_loan

\* an end of loan at Cd, a record to a youth team, a loan to Ab: the end of loan
\* record is emitted as a stint although the next surviving record is a loan
C22_Witness ==
    /\ Cleaned
    /\ LET transfers_list == lastResp.request[1].transfers_list
       IN  /\ Len(transfers_list) = 3
           /\ transfers_list[1].to_club = <<"C", "d">>
           /\ has_end_of_loan(lower(transfers_list[1].fee))
           /\ transfers_list[2].to_club = <<"A", "b", " ", "U", "1", "9">>
           /\ transfers_list[2].fee = << >>
           /\ transfers_list[3].to_club = <<"A", "b">>
           /\ has_loan_transfer(lower(transfers_list[3].fee))
    /\ Len(lastResp.body.cleaned) = 2
    /\ lastResp.body.cleaned[1].club = <<"C", "d">>
    /\ ~lastResp.body.cleaned[1].is_loan
    /\ lastResp.body.cleaned[2].is_loan

\* C23: every record categorize_by_difficulty returns, and every row stored from it,
\* has difficulty short exactly when its number of stints is at most 4, moderate
\* exactly when it is 5, 6 or 7, and long exactly when it is 8 or more.
C23_DifficultyThresholds ==
    /\ lastResp.op = "categorize_by_difficulty" =>
        \A k \in 1..Len(lastResp.body.sequences) :
            LET seq == lastResp.body.sequences[k]
                stint_count == Len(seq.clubs)
            IN  /\ seq.num_moves = stint_count
                /\ seq.difficulty \in Difficulties
                /\ seq.difficulty = "short" <=> stint_count <= 4
                /\ seq.difficulty = "moderate" <=> (5 <= stint_count /\ stint_count <= 7)
                /\ seq.difficulty = "long" <=> stint_count >= 8
    /\ lastResp.op = "store_difficulty_analysis" =>
        \A p \in DOMAIN lastResp.body.sequence_analysis :
            LET row == lastResp.body.sequence_analysis[p]
            IN  /\ row.difficulty = "short" <=> row.num_moves <= 4
                /\ row.difficulty = "moderate" <=> (5 <= row.num_moves /\ row.num_moves <= 7)
                /\ row.difficulty = "long" <=> row.num_moves >= 8

\* a categorized batch with sequences of 4, 7 and 8 stints: short, moderate, long
C23_Witness ==
    /\ lastResp.op = "categorize_by_difficulty"
    /\ Len(lastResp.body.sequences) = 3
    /\ lastResp.body.sequences[1].num_moves = 4
    /\ lastResp.body.sequences[1].difficulty = "short"
    /\ lastResp.body.sequences[2].num_moves = 7
    /\ lastResp.body.sequences[2].difficulty = "moderate"
    /\ lastResp.body.sequences[3].num_moves = 8
    /\ lastResp.body.sequences[3].difficulty = "long"

\* C24: once a batch is categorized and stored, every row's
\* num_players_with_same_seq is the number of rows of the table that have the same
\* sequence_string, the row itself included; the table has one row per record of the
\* batch.
C24_SharedByCount ==
    lastResp.op = "store_difficulty_analysis" =>
        LET table == lastResp.body.sequence_analysis
        IN  /\ Cardinality(DOMAIN table) = Len(lastResp.request[1].sequences)
            /\ \A p \in DOMAIN table :
                table[p].num_players_with_same_seq =
                    Cardinality({q \in DOMAIN table :
                                    table[q].sequence_string = table[p].sequence_string})

\* a stored batch of three in which two players share a sequence and the third has
\* another one of the same length
C24_Witness ==
    /\ lastResp.op = "store_difficulty_analysis"
    /\ LET table == lastResp.body.sequence_analysis
       IN  /\ DOMAIN table = PlayerIds
           /\ table["p1"].sequence_string = table["p3"].sequence_string
           /\ table["p1"].sequence_string # table["p2"].sequence_string
           /\ table["p1"].num_moves = table["p2"].num_moves
           /\ table["p1"].num_players_with_same_seq = 2
           /\ table["p3"].num_players_with_same_seq = 2
           /\ table["p2"].num_players_with_same_seq = 1

\* C25: under SpecLive (the clock advances, the sweep keeps firing), every stored
\* session is eventually absent from the store, whatever its client does or fails to
\* do; and a sweep that raised leaves the task asleep, ready for the next sweep, with
\* the store as it was.
C25_EventuallyRemoved ==
    /\ \A sid \in SessionIds :
        (Key(sid) \in DOMAIN storage) ~> (Key(sid) \notin DOMAIN storage)
    /\ [][(lastCall'.op = "cleanup_expired_raised" /\ lastCall' # lastCall) =>
              /\ sweep'.pc = "sleep"
              /\ storage' = storage
              /\ expiry' = expiry]_vars

\* after a sweep that raised, the next sweep has listed a session whose client never
\* ended it and whose deadline has passed, and is about to delete it
C25_Witness ==
    /\ lastCall.op = "cleanup_expired_raised"
    /\ sweep.pc = "deleting"
    /\ \E sid \in SessionIds :
        /\ Key(sid) \in sweep.keys
        /\ Key(sid) \in DOMAIN storage
        /\ now > expiry[Key(sid)]
        /\ ~client[sid].ended

\* C26: in every reachable state, with requests on one session interleaved in any
\* way, every stored session record has score = correct_guesses and
\* 0 <= correct_guesses <= total_attempts.
C26_CountersConsistent ==
    \A key \in DOMAIN storage :
        /\ storage[key].score = storage[key].correct_guesses
        /\ 0 <= storage[key].correct_guesses
        /\ storage[key].correct_guesses <= storage[key].total_attempts

\* two guesses on one session were both answered, one write-back overwrote the
\* other, and the stored record counts one attempt, a correct one
C26_Witness ==
    \E sid \in SessionIds :
        /\ Key(sid) \in DOMAIN storage
        /\ client[sid].answered = 2
        /\ storage[Key(sid)].total_attempts = 1
        /\ storage[Key(sid)].correct_guesses = 1
        /\ storage[Key(sid)].score = 1

\* C27: a start, guess or next request that is answered with an error, other than
\* for a session that its read found absent, makes no change to the store: the step
\* that answers it leaves _storage and _expiry as they are (no session created, no
\* attempt counted, the question and the stored difficulty / top_n kept), and the
\* read it began with found the record and left the store as it was too.
C27_ErrorLeavesState ==
    [][/\ (/\ lastResp'.op \in {"start", "guess", "next"}
           /\ lastResp'.body.status \notin {0, 200}
           /\ ~(lastResp'.op \in {"guess", "next"} /\ lastResp'.body.status = 404
                    /\ thread' = thread)) =>
                (storage' = storage /\ expiry' = expiry)
       /\ \A t \in Threads :
            (thread[t].pc = "idle" /\ thread'[t].pc = "read") =>
                /\ storage' = storage
                /\ expiry' = expiry
                /\ thread'[t].session_data = Some(storage[Key(thread'[t].sid)])]_vars

\* a next request with a difficulty that does not exist was answered 400 after a
\* guess was counted: the stored record keeps its difficulty, its question and its
\* one attempt
C27_Witness ==
    /\ lastResp.op = "next"
    /\ lastResp.body.status = 400
    /\ lastResp.sid \in SessionIds
    /\ Key(lastResp.sid) \in DOMAIN storage
    /\ storage[Key(lastResp.sid)].total_attempts = 1
    /\ storage[Key(lastResp.sid)].difficulty = client[lastResp.sid].difficulty
    /\ storage[Key(lastResp.sid)].current_question_player_id = client[lastResp.sid].player_id

\* C28: a session that has left the store, whether an end, the sweep or the eviction
\* of a read removed it, is never in the store again: no step puts back the value or
\* the deadline of a key that was handed out and is absent, and the write-back of a
\* guess or advance that read the session before it was removed changes nothing.
C28_NoResurrection ==
    [][/\ \A s \in SessionIds :
            (s \in used /\ Key(s) \notin DOMAIN storage) =>
                (Key(s) \notin DOMAIN storage' /\ Key(s) \notin DOMAIN expiry')
       /\ \A t \in Threads :
            (thread[t].pc = "read" /\ thread'[t].pc = "idle"
                /\ Key(thread[t].sid) \notin DOMAIN storage) =>
                    (storage' = storage /\ expiry' = expiry)]_vars

\* a guess or advance answered with success on a session that the sweep deleted
\* between the request's read and its write-back; no end was made, and the session
\* is absent
C28_Witness ==
    /\ lastResp.op \in {"guess", "next"}
    /\ lastResp.body.status = 200
    /\ lastResp.sid \in used
    /\ ~client[lastResp.sid].ended
    /\ lastCall.op = "delete"
    /\ lastCall.key = Key(lastResp.sid)
    /\ lastCall.ok
    /\ Key(lastResp.sid) \notin DOMAIN storage
    /\ Key(lastResp.sid) \notin DOMAIN expiry

\* C29: after any sequence of set, get, exists, update, delete, cleanup_expired and
\* get_all_keys calls, the keys of _storage are the keys of _expiry.
C29_SameKeys == DOMAIN storage = DOMAIN expiry

\* a cleanup_expired that removed one of two entries
C29_Witness ==
    /\ lastCall.op = "cleanup_expired"
    /\ lastCall.count = 1
    /\ Cardinality(DOMAIN storage) = 1
    /\ DOMAIN expiry = DOMAIN storage

\* whether a guess holds nothing but whitespace and characters sanitize_guess removes
OnlyRemovedOrWhitespace(guess) ==
    \A i \in 1..Len(guess) : guess[i] \in Whitespace \/ ~KeptChar(guess[i])

\* C30: for every guess, what sanitize_guess returns has no whitespace at either
\* end, no two whitespace characters in a row and no character outside letters,
\* digits, underscore, whitespace, hyphen and apostrophe, and sanitize_guess returns
\* it unchanged; a guess of removed characters and whitespace alone sanitizes to the
\* empty string, and check_guess rejects it with 400.  (Stated as the claim states
\* it; sanitize_guess trims and collapses before it removes characters, so what the
\* removal uncovers stays.)
C30_NormalForm ==
    /\ lastResp.op = "sanitize_guess" =>
        LET raw == lastResp.request[1].guess
            guess == lastResp.body.guess
        IN  /\ guess = << >> \/ (guess[1] \notin Whitespace /\ guess[Len(guess)] \notin Whitespace)
            /\ \A i \in 1..(Len(guess) - 1) :
                    ~(guess[i] \in Whitespace /\ guess[i + 1] \in Whitespace)
            /\ \A i \in 1..Len(guess) : KeptChar(guess[i])
            /\ sanitize_guess(guess) = guess
            /\ OnlyRemovedOrWhitespace(raw) => guess = << >>
    /\ lastResp.op = "check_guess" =>
        (OnlyRemovedOrWhitespace(lastResp.request[1].guess) => lastResp.body.status = 400)

\* check_guess evaluated the guess "! !", which sanitize_guess turns into one space
C30_Witness ==
    /\ lastResp.op = "check_guess"
    /\ lastResp.request[1].guess = <<"!", " ", "!">>
    /\ sanitize_guess(lastResp.request[1].guess) = <<" ">>
    /\ lastResp.body.status = 200
    /\ ~lastResp.body.correct

====
